---- MODULE Spec2Model ----
(***************************************************************************)
(* A model of the CrowdStrike Falcon API client (CrowdStrikeClientImpl in  *)
(* src/src/types/env.ts): the OAuth2 token slot, getAccessToken, request   *)
(* and the typed operations built on them.                                 *)
(*                                                                         *)
(* A client instance is what createCrowdStrikeClient returns: one is built  *)
(* for every incoming /mcp request, from the credentials in its headers.   *)
(* An operation on a client is an                                          *)
(* async function: it runs synchronously up to its next `await` of a       *)
(* network call and resumes when the call completes.  Every action below   *)
(* is one such synchronous segment; pc[op] is the await the operation is   *)
(* suspended at.  The network is the environment: it answers each call     *)
(* with a status, headers and a body drawn from the sets below, or fails.  *)
(* A success answer carries well-formed JSON: a token response has a       *)
(* non-empty access_token and a positive expires_in.                       *)
(***************************************************************************)
EXTENDS Integers, Sequences, FiniteSets, TLC

VARIABLES
  now,          \* the value Date.now() returns (ms)
  credentials,  \* per client: this.credentials (NoCredentials: not constructed)
  baseUrl,      \* per client: this.baseUrl
  accessToken,  \* per client: this.accessToken (NoToken models null)
  tokenExpiry,  \* per client: this.tokenExpiry (ms)
  lastGrant,    \* per client: the token response stored last, when, over
                \* which token, and the credentials it was granted to
  sessions,     \* the vendor's view of each RTR session id
  pc,           \* per operation: the await it is suspended at
  client,       \* per operation: the client instance it was invoked on
  opName,       \* per operation: the client method invoked
  args,         \* per operation: the arguments of the invocation
  token,        \* per operation: what getAccessToken returned to getAuthHeaders
  tokenFrom,    \* per operation: the credentials that token was granted to
  sentAuth,     \* per operation: Authorization header of the API call issued
  sentPayload,  \* per operation: ids, filter and session the API call carries
  response,     \* per operation: the local `response` of the last fetch
  body,         \* per operation: the body read from that response
  result,       \* per operation: how request() settled
  returned,     \* per operation: how the client method settled
  nExchange,    \* per operation: POST /oauth2/token calls issued by this invocation
  nApi,         \* per operation: vendor API calls issued by this invocation
  mcp           \* the last POST /mcp: the credentials parsed from its headers
                \* and the status the fetch handler answered with itself

vars == <<now, credentials, baseUrl, accessToken, tokenExpiry, lastGrant,
          sessions, pc, client, opName, args, token, tokenFrom, sentAuth,
          sentPayload, response, body, result, returned, nExchange, nApi,
          mcp>>

-----------------------------------------------------------------------------
(* Bounds and input sets *)

\* operations that may be in flight at once (SpecConc)
NumOps == 2

Ops == 1..NumOps

\* client instances that may be constructed (SpecTenants)
NumClients == 2

Clients == 1..NumClients

\* length of the longest id list an operation is called with
MaxIds == 2

\* the caller of Spec awaits each operation before it starts the next
SeqOps == {1}

\* clock readings, in ms: around the 60 s margin of a 300 s token stored at 0
\* (239 s, 240 s, 241 s) and of a 61 s token stored at 0 (999 ms, 1000 ms),
\* then the expiry of the 300 s token itself
ClockReadings == <<0, 999, 1000, 239000, 239999, 240000, 241000, 300000>>

\* how many of the clock readings the clock goes through
NumInstants == 7

Instants == {ClockReadings[i] : i \in 1..NumInstants}

Tokens == {"tok1", "tok2"}

ExpiresInValues == {1, 60, 61, 300}

\* successful token responses {access_token, expires_in}
Grants == [access_token : Tokens, expires_in : ExpiresInValues]

\* responses of the token endpoint
TokenResponses ==
  { [status |-> 200, statusText |-> "OK"],
    [status |-> 401, statusText |-> "Unauthorized"],
    [status |-> 403, statusText |-> "Forbidden"],
    [status |-> 429, statusText |-> "Too Many Requests"],
    [status |-> 500, statusText |-> "Internal Server Error"] }

\* a header value is a string, modelled as the sequence of its characters
Header(present, chars) == [present |-> present, value |-> chars]

NoHeader == Header(FALSE, <<>>)

RetryAfterHeaders ==
  { NoHeader,
    Header(TRUE, <<>>),
    Header(TRUE, <<"3", "0">>),
    Header(TRUE, <<"0">>),
    Header(TRUE, <<" ", "7", "s">>),
    Header(TRUE, <<"-", "5">>),
    Header(TRUE, <<"x">>) }

ApiStatuses == {200, 204, 401, 403, 404, 429, 500}

\* responses of the vendor API: the retry-after header is read on a 429 only
ApiResponses ==
  { [status |-> s, retryAfter |-> h] :
      s \in ApiStatuses \ {429}, h \in {NoHeader} }
  \cup { [status |-> 429, retryAfter |-> h] : h \in RetryAfterHeaders }

NoResponse == [url |-> "none", status |-> 0]

TokenUrl == "/oauth2/token"

\* the local `response` of getAccessToken
TokenResponse(r) ==
  [url |-> TokenUrl, status |-> r.status, statusText |-> r.statusText]

-----------------------------------------------------------------------------
(* JavaScript values *)

\* null in the token slot
NoToken == "null"

\* a number, or NaN
Num(n) == [nan |-> FALSE, n |-> n]

NaN == [nan |-> TRUE, n |-> 0]

Digits == {"0", "1", "2", "3", "4", "5", "6", "7", "8", "9"}

DigitValue(c) ==
  CASE c = "0" -> 0 [] c = "1" -> 1 [] c = "2" -> 2 [] c = "3" -> 3
    [] c = "4" -> 4 [] c = "5" -> 5 [] c = "6" -> 6 [] c = "7" -> 7
    [] c = "8" -> 8 [] c = "9" -> 9

RECURSIVE SkipSpace(_)
SkipSpace(s) ==
  IF s # <<>> /\ Head(s) = " " THEN SkipSpace(Tail(s)) ELSE s

RECURSIVE LeadingDigits(_)
LeadingDigits(s) ==
  IF s # <<>> /\ Head(s) \in Digits
    THEN <<Head(s)>> \o LeadingDigits(Tail(s))
    ELSE <<>>

RECURSIVE DigitsValue(_)
DigitsValue(ds) ==
  IF ds = <<>> THEN 0
  ELSE 10 * DigitsValue(SubSeq(ds, 1, Len(ds) - 1)) + DigitValue(ds[Len(ds)])

\* parseInt(s, 10): leading white space is skipped, a sign is read, then the
\* longest run of decimal digits; NaN when there is no digit
ParseInt(s) ==
  LET t == SkipSpace(s)
      negative == t # <<>> /\ Head(t) = "-"
      u == IF t # <<>> /\ Head(t) \in {"-", "+"} THEN Tail(t) ELSE t
      ds == LeadingDigits(u)
  IN  IF ds = <<>> THEN NaN
      ELSE Num(IF negative THEN 0 - DigitsValue(ds) ELSE DigitsValue(ds))

\* response.ok
Ok(status) == status >= 200 /\ status <= 299

-----------------------------------------------------------------------------
(* Response bodies *)

NoBody == [kind |-> "none"]

\* an element of the vendor's `errors` array: null, or an object whose
\* `message` may be missing
ErrorItem(m) == [isNull |-> FALSE, hasMessage |-> TRUE, message |-> m]

ErrorItemNoMessage == [isNull |-> FALSE, hasMessage |-> FALSE, message |-> ""]

NullItem == [isNull |-> TRUE, hasMessage |-> FALSE, message |-> ""]

\* the text of an error response: not JSON, the JSON value null, or a JSON
\* object whose `errors` is missing, an array, a non-empty string or a number
\* and whose `message` is missing or a string
TextBody == [kind |-> "text", errorsKind |-> "absent", errors |-> <<>>,
             hasMessage |-> FALSE, message |-> ""]

NullBody == [kind |-> "null", errorsKind |-> "absent", errors |-> <<>>,
             hasMessage |-> FALSE, message |-> ""]

ObjectBody(ek, es, hm, m) ==
  [kind |-> "object", errorsKind |-> ek, errors |-> es,
   hasMessage |-> hm, message |-> m]

ErrorLists ==
  { <<>>,
    <<ErrorItem("bad filter")>>,
    <<ErrorItem("bad filter"), ErrorItem("bad sort")>>,
    <<ErrorItemNoMessage, ErrorItem("bad sort")>>,
    <<ErrorItem("bad filter"), NullItem>> }

TopMessages == { <<FALSE, "">>, <<TRUE, "">>, <<TRUE, "nope">> }

ErrorBodies ==
  {TextBody, NullBody}
  \cup { ObjectBody("absent", <<>>, tm[1], tm[2]) : tm \in TopMessages }
  \cup { ObjectBody("array", es, tm[1], tm[2]) :
           es \in ErrorLists, tm \in TopMessages }
  \cup { ObjectBody("string", <<>>, tm[1], tm[2]) : tm \in TopMessages }
  \cup { ObjectBody("number", <<>>, tm[1], tm[2]) : tm \in TopMessages }

\* the JSON envelope of a successful response
Envelope(hasResources, resources) ==
  [kind |-> "envelope", hasResources |-> hasResources, resources |-> resources]

OkBodies ==
  { Envelope(TRUE, <<"d1", "d2">>), Envelope(TRUE, <<>>), Envelope(FALSE, <<>>) }

\* Array.prototype.join("; ") over e.message: a missing message joins as ""
RECURSIVE JoinMessages(_)
JoinMessages(es) ==
  LET first == IF es[1].hasMessage THEN es[1].message ELSE ""
  IN  IF Len(es) = 1 THEN first
      ELSE first \o "; " \o JoinMessages(Tail(es))

DefaultMessage(status) == "API error: " \o ToString(status)

\* errorJson.errors?.length is truthy: a non-empty array or string
ErrorsLength(b) ==
  (b.errorsKind = "array" /\ Len(b.errors) > 0) \/ b.errorsKind = "string"

\* errorJson.errors.map(e => e.message) throws: errors is no array, or one
\* of its elements is null
MapThrows(b) ==
  b.errorsKind # "array" \/ \E i \in 1..Len(b.errors) : b.errors[i].isNull

\* variant of the extraction: the top-level message is preferred to errors
ErrorMessageTopFirst(b, status) ==
  IF b.kind # "object" THEN DefaultMessage(status)
  ELSE IF b.hasMessage /\ b.message # "" THEN b.message
  ELSE IF ErrorsLength(b) /\ ~MapThrows(b) THEN JoinMessages(b.errors)
  ELSE DefaultMessage(status)

\* the try block of request(): JSON.parse, then errors / message; whatever it
\* throws leaves the default message
ErrorMessage(b, status) ==
  IF b.kind = "text" THEN DefaultMessage(status)
  ELSE IF b.kind = "null" THEN DefaultMessage(status)
  ELSE IF ErrorsLength(b) THEN
    IF MapThrows(b) THEN DefaultMessage(status) ELSE JoinMessages(b.errors)
  ELSE IF b.hasMessage /\ b.message # "" THEN b.message
  ELSE DefaultMessage(status)

-----------------------------------------------------------------------------
(* Token Manager *)

\* the 60-second buffer
SkewMs == 60000

\* variant of the cache test: the boundary instant still counts as valid
TokenUsableInclusive(tok, expiry, t) ==
  tok # NoToken /\ tok # "" /\ t <= expiry - SkewMs

\* variant of the cache test: a token is served until it expires
TokenUsableNoSkew(tok, expiry, t) == tok # NoToken /\ tok # "" /\ t < expiry

\* the cache test of getAccessToken
TokenUsable(tok, expiry, t) == tok # NoToken /\ tok # "" /\ t < expiry - SkewMs

\* variant of the expiry: expires_in taken as milliseconds
NewExpirySeconds(t, expiresIn) == t + expiresIn

\* this.tokenExpiry = Date.now() + data.expires_in * 1000
NewExpiry(t, expiresIn) == t + expiresIn * 1000

\* variant of the failure message: the status text is left out
ExchangeFailureMessageNoText(status, statusText) ==
  "OAuth2 authentication failed: " \o ToString(status)

ExchangeFailureMessage(status, statusText) ==
  "OAuth2 authentication failed: " \o ToString(status) \o " " \o statusText

\* variant of the header: the token without its scheme
AuthHeaderRaw(tok) == tok

\* getAuthHeaders
AuthHeader(tok) == "Bearer " \o tok

NoAuth == "none"

\* variant of the retry-after value: the header is not read
RetryAfterIgnored(h) == Num(60)

\* retryAfter ? parseInt(retryAfter, 10) : 60
RetryAfterSeconds(h) ==
  IF h.present /\ h.value # <<>> THEN ParseInt(h.value) ELSE Num(60)

-----------------------------------------------------------------------------
(* The operations of the client *)

QueryOps ==
  { "queryHosts", "queryDetections", "queryIncidents", "queryAlerts",
    "queryIOCs", "queryVulnerabilities", "queryHostGroups",
    "queryPreventionPolicies", "queryDeviceControlPolicies",
    "querySensorUpdatePolicies" }

\* the operations that begin with `if (ids.length === 0) return [];`
GetOps ==
  { "getHosts", "getDetections", "getIncidents", "getBehaviors", "getAlerts",
    "getIOCs", "getVulnerabilities", "getHostGroups", "getPreventionPolicies",
    "getDeviceControlPolicies", "getSensorUpdatePolicies" }

HostActionOps == { "containHost", "liftContainment", "hideHost", "unhideHost" }

UpdateOps == { "updateDetectionStatus", "updateIncident", "updateAlerts" }

DeleteOps == { "deleteIOCs", "deleteHostGroups" }

GroupMemberOps == { "addHostsToGroup", "removeHostsFromGroup" }

\* the operations that return `response.resources[0]`
EntityOps ==
  { "createIOC", "updateIOC", "createHostGroup", "updateHostGroup",
    "initRTRSession", "executeRTRCommand", "executeRTRActiveResponderCommand" }

RTRCommandOps == { "executeRTRCommand", "executeRTRActiveResponderCommand" }

\* the operations that return { success: true, message }
AckOps ==
  HostActionOps \cup UpdateOps \cup DeleteOps \cup GroupMemberOps
    \cup { "deleteRTRSession" }

\* the operations that take a list of ids
IdListOps ==
  GetOps \cup HostActionOps \cup UpdateOps \cup DeleteOps \cup GroupMemberOps

OpNames == QueryOps \cup GetOps \cup AckOps \cup EntityOps \cup { "testConnection" }

\* variant of the command endpoints: both kinds of command are posted to
\* the active-responder endpoint
RTRCommandEndpointShared(name) ==
  "/real-time-response/entities/active-responder-command/v1"

\* the path an RTR command is posted to
RTRCommandEndpoint(name) ==
  IF name = "executeRTRCommand"
    THEN "/real-time-response/entities/command/v1"
  ELSE "/real-time-response/entities/active-responder-command/v1"

\* the client method an RTR command tool calls
ToolMethod(tool) ==
  IF tool = "crowdstrike_rtr_command" THEN "executeRTRCommand"
  ELSE "executeRTRActiveResponderCommand"

\* the path request() is called with
Endpoint(name) ==
  CASE name = "testConnection" -> "/devices/queries/devices/v1"
    [] name = "queryHosts" -> "/devices/queries/devices/v1"
    [] name = "getHosts" -> "/devices/entities/devices/v2"
    [] name \in HostActionOps -> "/devices/entities/devices-actions/v2"
    [] name = "queryDetections" -> "/detects/queries/detects/v1"
    [] name = "getDetections" -> "/detects/entities/summaries/GET/v1"
    [] name = "updateDetectionStatus" -> "/detects/entities/detects/v2"
    [] name = "queryIncidents" -> "/incidents/queries/incidents/v1"
    [] name = "getIncidents" -> "/incidents/entities/incidents/GET/v1"
    [] name = "updateIncident" -> "/incidents/entities/incident-actions/v1"
    [] name = "getBehaviors" -> "/incidents/entities/behaviors/GET/v1"
    [] name = "queryAlerts" -> "/alerts/queries/alerts/v1"
    [] name = "getAlerts" -> "/alerts/entities/alerts/v1"
    [] name = "updateAlerts" -> "/alerts/entities/alerts/v2"
    [] name = "queryIOCs" -> "/iocs/queries/indicators/v1"
    [] name \in {"getIOCs", "createIOC", "updateIOC", "deleteIOCs"} ->
         "/iocs/entities/indicators/v1"
    [] name = "queryVulnerabilities" -> "/spotlight/queries/vulnerabilities/v1"
    [] name = "getVulnerabilities" -> "/spotlight/entities/vulnerabilities/v2"
    [] name = "queryHostGroups" -> "/devices/queries/host-groups/v1"
    [] name \in {"getHostGroups", "createHostGroup", "updateHostGroup",
                 "deleteHostGroups"} -> "/devices/entities/host-groups/v1"
    [] name \in GroupMemberOps -> "/devices/entities/host-group-actions/v1"
    [] name = "queryPreventionPolicies" -> "/policy/queries/prevention/v1"
    [] name = "getPreventionPolicies" -> "/policy/entities/prevention/v1"
    [] name = "queryDeviceControlPolicies" -> "/policy/queries/device-control/v1"
    [] name = "getDeviceControlPolicies" -> "/policy/entities/device-control/v1"
    [] name = "querySensorUpdatePolicies" -> "/policy/queries/sensor-update/v1"
    [] name = "getSensorUpdatePolicies" -> "/policy/entities/sensor-update/v2"
    [] name \in {"initRTRSession", "deleteRTRSession"} ->
         "/real-time-response/entities/sessions/v1"
    [] name \in RTRCommandOps -> RTRCommandEndpoint(name)

\* the local `response` of request()
ApiResponse(name, r) ==
  [url |-> Endpoint(name), status |-> r.status, retryAfter |-> r.retryAfter]

\* the arguments of an invocation: an id list, the filter of
\* queryVulnerabilities (a string, or undefined), an RTR session id, and the
\* status or action of an update or the group of a membership change
Args(ids, filter, sessionId, label) ==
  [ids |-> ids, filter |-> filter, sessionId |-> sessionId, label |-> label]

\* undefined passed for a string
NoString == [present |-> FALSE, value |-> ""]

String(v) == [present |-> TRUE, value |-> v]

NoArgs == Args(<<>>, NoString, "", "")

\* the id lists of length n: n distinct ids
IdList(n) == [i \in 1..n |-> "id" \o ToString(i)]

IdLists == { IdList(n) : n \in 0..MaxIds }

Filters == { NoString, String(""), String("status:'open'") }

\* the vendor names an RTR session in the resource it returns
SessionIds == { "d1", "d2" }

Call(name, a) == [name |-> name, args |-> a]

\* the invocations of name
CallsOf(name) ==
  IF name \in UpdateOps
    THEN { Call(name, Args(ids, NoString, "", "closed")) : ids \in IdLists }
  ELSE IF name \in GroupMemberOps
    THEN { Call(name, Args(ids, NoString, "", "g1")) : ids \in IdLists }
  ELSE IF name \in IdListOps
    THEN { Call(name, Args(ids, NoString, "", "")) : ids \in IdLists }
  ELSE IF name = "queryVulnerabilities"
    THEN { Call(name, Args(<<>>, f, "", "")) : f \in Filters }
  ELSE IF name \in RTRCommandOps \cup { "deleteRTRSession" }
    THEN { Call(name, Args(<<>>, NoString, sid, "")) : sid \in SessionIds }
  ELSE { Call(name, NoArgs) }

-----------------------------------------------------------------------------
(* How an invocation settles *)

Pending == [kind |-> "pending"]

Undefined == [kind |-> "undefined"]

Resolved(v) == [kind |-> "resolved", value |-> v]

AuthenticationError(m) == [kind |-> "AuthenticationError", message |-> m]

RateLimitError(m, retryAfter) ==
  [kind |-> "RateLimitError", message |-> m, retryAfter |-> retryAfter]

CrowdStrikeApiError(m, status) ==
  [kind |-> "CrowdStrikeApiError", message |-> m, status |-> status]

TypeError == [kind |-> "TypeError"]

\* what a fetch() that cannot complete rejects with
NetworkError == [kind |-> "NetworkError"]

IsError(r) == r.kind \notin {"pending", "resolved"}

\* what a caught error shows as error.message
MessageOf(r) ==
  IF r.kind \in {"AuthenticationError", "RateLimitError", "CrowdStrikeApiError"}
    THEN r.message
  ELSE IF r.kind = "TypeError"
    THEN "Cannot read properties of undefined"
  ELSE "fetch failed"

\* what testConnection returns
ConnectionStatus(connected, m) == [connected |-> connected, message |-> m]

\* what a mutation returns
Ack(success, m) == [success |-> success, message |-> m]

\* hostIds.map((id) => `device_id:'${id}'`).join(',')
RECURSIVE DeviceFilter(_)
DeviceFilter(ids) ==
  IF ids = <<>> THEN ""
  ELSE IF Len(ids) = 1 THEN "device_id:'" \o ids[1] \o "'"
  ELSE "device_id:'" \o ids[1] \o "'," \o DeviceFilter(Tail(ids))

NoPayload ==
  [endpoint |-> "none", keys |-> {}, ids |-> <<>>, filter |-> "", session |-> ""]

\* variant of the filter test: an empty filter is passed on
FilterGivenPresent(a) == a.filter.present

\* `if (params?.filter)`: the filter is a non-empty string
FilterGiven(a) == a.filter.present /\ a.filter.value # ""

\* the names of the parameters a vendor call carries: the keys of its JSON
\* body, or the parameters its query string is built with (of a query's
\* params only the filter is modelled)
PayloadKeys(name, a) ==
  CASE name \in RTRCommandOps -> {"session_id", "base_command", "command_string"}
    [] name = "initRTRSession" -> {"device_id", "queue_offline"}
    [] name = "deleteRTRSession" -> {"session_id"}
    [] name \in GroupMemberOps -> {"ids", "action_parameters"}
    [] name = "updateIncident" -> {"ids", "action_parameters"}
    [] name = "updateDetectionStatus" -> {"ids", "status"}
    [] name = "updateAlerts" ->
         IF a.label # "" THEN {"ids", "update_status"} ELSE {"ids"}
    [] name \in {"createIOC", "updateIOC"} -> {"indicators"}
    [] name \in {"createHostGroup", "updateHostGroup"} -> {"resources"}
    [] name \in {"getIOCs", "getVulnerabilities", "getHostGroups",
                 "getPreventionPolicies", "getDeviceControlPolicies",
                 "getSensorUpdatePolicies"} \cup DeleteOps ->
         IF a.ids = <<>> THEN {} ELSE {"ids"}
    [] name \in GetOps \cup HostActionOps -> {"ids"}
    [] name = "queryVulnerabilities" -> {"filter"}
    [] name \in QueryOps -> IF FilterGiven(a) THEN {"filter"} ELSE {}
    [] OTHER -> {}

\* what the vendor call of an operation carries, in its body or query string
Payload(name, a) ==
  [endpoint |-> Endpoint(name),
   keys |-> PayloadKeys(name, a),
   ids |-> IF name \in GroupMemberOps THEN <<a.label>>
           ELSE IF name \in IdListOps THEN a.ids
           ELSE <<>>,
   filter |-> IF name \in GroupMemberOps THEN DeviceFilter(a.ids)
              ELSE IF name = "queryVulnerabilities"
                THEN IF a.filter.present THEN a.filter.value ELSE "undefined"
              ELSE IF name \in QueryOps /\ FilterGiven(a) THEN a.filter.value
              ELSE "",
   session |-> IF name \in RTRCommandOps \cup { "deleteRTRSession" }
                 THEN a.sessionId
               ELSE ""]

\* the message of the acknowledgement a mutation returns
AckMessage(name, a) ==
  LET n == ToString(Len(a.ids))
  IN  CASE name = "containHost" -> "Containment initiated for " \o n \o " host(s)"
        [] name = "liftContainment" -> "Containment lifted for " \o n \o " host(s)"
        [] name = "hideHost" -> "Hidden " \o n \o " host(s)"
        [] name = "unhideHost" -> "Unhidden " \o n \o " host(s)"
        [] name = "updateDetectionStatus" ->
             "Updated status to '" \o a.label \o "' for " \o n \o " detection(s)"
        [] name = "updateIncident" ->
             "Action '" \o a.label \o "' applied to " \o n \o " incident(s)"
        [] name = "updateAlerts" -> "Updated " \o n \o " alert(s)"
        [] name = "deleteIOCs" -> "Deleted " \o n \o " IOC(s)"
        [] name = "deleteHostGroups" -> "Deleted " \o n \o " host group(s)"
        [] name = "addHostsToGroup" -> "Added " \o n \o " host(s) to group"
        [] name = "removeHostsFromGroup" -> "Removed " \o n \o " host(s) from group"
        [] name = "deleteRTRSession" -> "Session deleted"

\* variant of the guard: no operation returns early
ShortCircuitsNever(name, a) == FALSE

\* variant of the guard: every operation on an id list returns at once on an
\* empty list
ShortCircuitsAll(name, a) == name \in IdListOps /\ Len(a.ids) = 0

\* `if (ids.length === 0) return [];`: the operation returns without calling
\* request()
ShortCircuits(name, a) == name \in GetOps /\ Len(a.ids) = 0

\* variant of testConnection: an error is thrown on to the caller
ConnectionOutcomeThrowing(r) ==
  IF IsError(r) THEN r
  ELSE Resolved(ConnectionStatus(TRUE,
                  "Successfully connected to CrowdStrike Falcon API"))

\* testConnection: try { ... } catch (error) { return { connected: false } }
ConnectionOutcome(r) ==
  IF IsError(r) THEN Resolved(ConnectionStatus(FALSE, MessageOf(r)))
  ELSE Resolved(ConnectionStatus(TRUE,
                  "Successfully connected to CrowdStrike Falcon API"))

\* a query or a get: `return response.resources || []`
ListOutcome(r) ==
  IF r.kind # "resolved" THEN r
  ELSE IF r.value.kind = "undefined" THEN TypeError
  ELSE Resolved(IF r.value.hasResources THEN r.value.resources ELSE <<>>)

\* variant of a mutation: a failure is reported in the acknowledgement
AckOutcomeSwallowing(name, a, r) ==
  IF r.kind # "resolved" THEN Resolved(Ack(FALSE, MessageOf(r)))
  ELSE Resolved(Ack(TRUE, AckMessage(name, a)))

\* variant of a mutation: the vendor's response is returned
AckOutcomeRaw(name, a, r) == r

\* a mutation: `await this.request(...); return { success: true, message }`
AckOutcome(name, a, r) ==
  IF r.kind # "resolved" THEN r
  ELSE Resolved(Ack(TRUE, AckMessage(name, a)))

\* an element of `resources` as an operation returns it
Resource(id) == [kind |-> "resource", id |-> id]

\* variant of the methods that return an entity: an error of request() is
\* swallowed and undefined returned
EntityOutcomeSwallowing(r) ==
  IF r.kind # "resolved" THEN Resolved(Undefined)
  ELSE IF r.value.kind = "undefined" THEN TypeError
  ELSE IF ~r.value.hasResources THEN TypeError
  ELSE IF r.value.resources = <<>> THEN Resolved(Undefined)
  ELSE Resolved(Resource(r.value.resources[1]))

\* a create, an update of one entity or an RTR call:
\* `return response.resources[0]`
EntityOutcome(r) ==
  IF r.kind # "resolved" THEN r
  ELSE IF r.value.kind = "undefined" THEN TypeError
  ELSE IF ~r.value.hasResources THEN TypeError
  ELSE IF r.value.resources = <<>> THEN Resolved(Undefined)
  ELSE Resolved(Resource(r.value.resources[1]))

\* what the client method makes of request()'s outcome
MethodOutcome(name, a, r) ==
  IF name = "testConnection" THEN ConnectionOutcome(r)
  ELSE IF name \in AckOps THEN AckOutcome(name, a, r)
  ELSE IF name \in EntityOps THEN EntityOutcome(r)
  ELSE ListOutcome(r)

\* the result of the tool that calls the client method name: formatResponse
\* of what the method returned, formatError of what it threw (the test
\* connection tool builds both itself); reason is the error.message its text
\* carries
ToolResult(name, r) ==
  IF IsError(r)
    THEN [isError |-> TRUE, reason |-> MessageOf(r)]
    ELSE [isError |-> FALSE, reason |-> ""]

-----------------------------------------------------------------------------
(* The client *)

\* a slot of `credentials` no client was constructed in
NoCredentials == [clientId |-> "", clientSecret |-> "", baseUrl |-> ""]

\* the credentials of the tenant the first client is constructed for
FirstTenant == [clientId |-> "idA", clientSecret |-> "secretA", baseUrl |-> ""]

DEFAULT_BASE_URL == "https://api.crowdstrike.com"

\* this.baseUrl = credentials.baseUrl || DEFAULT_BASE_URL
BaseUrlOf(creds) ==
  IF creds.baseUrl # "" THEN creds.baseUrl ELSE DEFAULT_BASE_URL

NoGrant == [access_token |-> NoToken, expires_in |-> 0, at |-> 0,
            replaced |-> NoToken, credentials |-> NoCredentials]

\* variant of the token slot: one slot for the whole process
SlotShared(c) == 1

\* the token slot a method running on client c reads and writes: the fields
\* accessToken and tokenExpiry of its own instance
Slot(c) == c

\* the state after the first client is constructed:
\* new CrowdStrikeClientImpl(credentials) has no token and expiry 0
Init ==
  /\ now \in {0}
  /\ credentials = [c \in Clients |-> IF c = 1 THEN FirstTenant ELSE NoCredentials]
  /\ baseUrl = [c \in Clients |-> IF c = 1 THEN BaseUrlOf(FirstTenant) ELSE ""]
  /\ accessToken = [c \in Clients |-> NoToken]
  /\ tokenExpiry = [c \in Clients |-> 0]
  /\ lastGrant = [c \in Clients |-> NoGrant]
  /\ sessions = [sid \in SessionIds |-> "none"]
  /\ pc = [op \in Ops |-> "idle"]
  /\ client = [op \in Ops |-> 1]
  /\ opName = [op \in Ops |-> "none"]
  /\ args = [op \in Ops |-> NoArgs]
  /\ token = [op \in Ops |-> NoToken]
  /\ tokenFrom = [op \in Ops |-> NoCredentials]
  /\ sentAuth = [op \in Ops |-> NoAuth]
  /\ sentPayload = [op \in Ops |-> NoPayload]
  /\ response = [op \in Ops |-> NoResponse]
  /\ body = [op \in Ops |-> NoBody]
  /\ result = [op \in Ops |-> Pending]
  /\ returned = [op \in Ops |-> Pending]
  /\ nExchange = [op \in Ops |-> 0]
  /\ nApi = [op \in Ops |-> 0]
  /\ mcp = [credentials |-> FirstTenant, status |-> 0]

\* createCrowdStrikeClient(credentials): a new instance, with its own fields
\* (the fetch handler that calls it records the request in mcp)
CreateClient(c, creds) ==
  /\ credentials[c] = NoCredentials
  /\ credentials' = [credentials EXCEPT ![c] = creds]
  /\ baseUrl' = [baseUrl EXCEPT ![c] = BaseUrlOf(creds)]
  /\ accessToken' = [accessToken EXCEPT ![c] = NoToken]
  /\ tokenExpiry' = [tokenExpiry EXCEPT ![c] = 0]
  /\ lastGrant' = [lastGrant EXCEPT ![c] = NoGrant]
  /\ UNCHANGED <<now, sessions, pc, client, opName, args, token, tokenFrom,
                 sentAuth, sentPayload, response, body, result, returned,
                 nExchange, nApi>>

\* the headers of a POST /mcp, as headers.get returns them: those of the
\* first tenant, and those of a second with each of the two required ones
\* absent (null), empty or set
McpHeaders ==
  [clientId : {String("idA")},
   clientSecret : {String("secretA")},
   baseUrl : {NoString}]
  \cup
  [clientId : {NoString, String(""), String("idB")},
   clientSecret : {NoString, String(""), String("secretB")},
   baseUrl : {String("https://api.eu-1.crowdstrike.com")}]

\* headers.get(name) || ''
HeaderOrEmpty(h) == IF h.present THEN h.value ELSE ""

\* parseTenantCredentials ("" in baseUrl models undefined)
parseTenantCredentials(h) ==
  [clientId |-> HeaderOrEmpty(h.clientId),
   clientSecret |-> HeaderOrEmpty(h.clientSecret),
   baseUrl |-> HeaderOrEmpty(h.baseUrl)]

\* variant of the validation: only the client id is required
validateCredentialsIdOnly(creds) == creds.clientId # ""

\* validateCredentials does not throw
validateCredentials(creds) ==
  ~(creds.clientId = "" \/ creds.clientSecret = "")

\* POST /mcp without valid credentials: the handler answers 401 itself
McpRejected(h) ==
  /\ ~validateCredentials(parseTenantCredentials(h))
  /\ mcp' = [credentials |-> parseTenantCredentials(h), status |-> 401]
  /\ UNCHANGED <<now, credentials, baseUrl, accessToken, tokenExpiry, lastGrant,
                 sessions, pc, client, opName, args, token, tokenFrom, sentAuth,
                 sentPayload, response, body, result, returned, nExchange, nApi>>

\* POST /mcp with credentials: createStatelessServer constructs a client for
\* the request, which is passed on to the MCP handler
McpAccepted(c, h) ==
  /\ validateCredentials(parseTenantCredentials(h))
  /\ mcp' = [credentials |-> parseTenantCredentials(h), status |-> 0]
  /\ CreateClient(c, parseTenantCredentials(h))

\* the vendor's sessions once an operation has settled: a session returned by
\* initRTRSession is active, one deleteRTRSession succeeded for is closed
SessionsAfter(name, a, r) ==
  IF name = "initRTRSession" /\ r.kind = "resolved"
       /\ r.value.kind = "envelope" /\ r.value.hasResources
       /\ r.value.resources # <<>>
    THEN [sessions EXCEPT ![r.value.resources[1]] = "active"]
  ELSE IF name = "deleteRTRSession" /\ r.kind = "resolved"
    THEN [sessions EXCEPT ![a.sessionId] = "closed"]
  ELSE sessions

\* request(), or the getAccessToken before it, settles and the client method
\* with it
Settle(op, r) ==
  /\ pc' = [pc EXCEPT ![op] = "done"]
  /\ result' = [result EXCEPT ![op] = r]
  /\ returned' = [returned EXCEPT ![op] = MethodOutcome(opName[op], args[op], r)]
  /\ sessions' = SessionsAfter(opName[op], args[op], r)

\* variant of the cache hit: a hit extends the cached token's life
CacheHitSliding(op, c, n) ==
  /\ token' = [token EXCEPT ![op] = accessToken[Slot(c)]]
  /\ tokenFrom' = [tokenFrom EXCEPT ![op] = lastGrant[Slot(c)].credentials]
  /\ pc' = [pc EXCEPT ![op] = "headers"]
  /\ nExchange' = [nExchange EXCEPT ![op] = n]
  /\ tokenExpiry' = [tokenExpiry EXCEPT ![Slot(c)] = @ + SkewMs]
  /\ UNCHANGED <<accessToken, lastGrant, mcp>>

\* getAccessToken, cache hit: the cached token is returned at once; n
\* exchanges were issued by the invocation before
CacheHit(op, c, n) ==
  /\ token' = [token EXCEPT ![op] = accessToken[Slot(c)]]
  /\ tokenFrom' = [tokenFrom EXCEPT ![op] = lastGrant[Slot(c)].credentials]
  /\ pc' = [pc EXCEPT ![op] = "headers"]
  /\ nExchange' = [nExchange EXCEPT ![op] = n]
  /\ UNCHANGED <<accessToken, tokenExpiry, lastGrant, mcp>>

\* getAccessToken, cache miss: POST /oauth2/token is issued with the client's
\* credentials and awaited
IssueExchange(op, c, n) ==
  /\ token' = [token EXCEPT ![op] = NoToken]
  /\ tokenFrom' = [tokenFrom EXCEPT ![op] = credentials[c]]
  /\ pc' = [pc EXCEPT ![op] = "tokenFetch"]
  /\ nExchange' = [nExchange EXCEPT ![op] = n + 1]
  /\ UNCHANGED <<accessToken, tokenExpiry, lastGrant, mcp>>

\* a method of client c is invoked with the arguments of call
Invocation(op, c, call) ==
  /\ pc[op] \in {"idle", "done"}
  /\ credentials[c] # NoCredentials
  /\ client' = [client EXCEPT ![op] = c]
  /\ opName' = [opName EXCEPT ![op] = call.name]
  /\ args' = [args EXCEPT ![op] = call.args]
  /\ sentAuth' = [sentAuth EXCEPT ![op] = NoAuth]
  /\ sentPayload' = [sentPayload EXCEPT ![op] = NoPayload]
  /\ response' = [response EXCEPT ![op] = NoResponse]
  /\ body' = [body EXCEPT ![op] = NoBody]
  /\ result' = [result EXCEPT ![op] = Pending]
  /\ nApi' = [nApi EXCEPT ![op] = 0]
  /\ UNCHANGED <<now, credentials, baseUrl, sessions, mcp>>

\* a client method is invoked: it calls request(), which calls
\* getAuthHeaders(), which calls getAccessToken(), all in one synchronous run
Request(op, c, call) ==
  /\ call.name # "testConnection"
  /\ ~ShortCircuits(call.name, call.args)
  /\ Invocation(op, c, call)
  /\ returned' = [returned EXCEPT ![op] = Pending]
  /\ IF TokenUsable(accessToken[Slot(c)], tokenExpiry[Slot(c)], now)
       THEN CacheHit(op, c, 0)
       ELSE IssueExchange(op, c, 0)

\* a get-by-ids method is invoked with an empty list: it returns [] at once
ShortCircuit(op, c, call) ==
  /\ call.name # "testConnection"
  /\ ShortCircuits(call.name, call.args)
  /\ Invocation(op, c, call)
  /\ pc' = [pc EXCEPT ![op] = "done"]
  /\ returned' = [returned EXCEPT ![op] = Resolved(<<>>)]
  /\ token' = [token EXCEPT ![op] = NoToken]
  /\ tokenFrom' = [tokenFrom EXCEPT ![op] = NoCredentials]
  /\ nExchange' = [nExchange EXCEPT ![op] = 0]
  /\ UNCHANGED <<accessToken, tokenExpiry, lastGrant, mcp>>

\* testConnection is invoked: it awaits getAccessToken() before it calls
\* request()
TestConnection(op, c) ==
  /\ Invocation(op, c, Call("testConnection", NoArgs))
  /\ returned' = [returned EXCEPT ![op] = Pending]
  /\ token' = [token EXCEPT ![op] = NoToken]
  /\ IF TokenUsable(accessToken[Slot(c)], tokenExpiry[Slot(c)], now)
       THEN /\ pc' = [pc EXCEPT ![op] = "probed"]
            /\ tokenFrom' = [tokenFrom EXCEPT ![op] = NoCredentials]
            /\ nExchange' = [nExchange EXCEPT ![op] = 0]
       ELSE /\ pc' = [pc EXCEPT ![op] = "probeFetch"]
            /\ tokenFrom' = [tokenFrom EXCEPT ![op] = credentials[c]]
            /\ nExchange' = [nExchange EXCEPT ![op] = 1]
  /\ UNCHANGED <<accessToken, tokenExpiry, lastGrant, mcp>>

\* testConnection has its token and calls request(), which calls
\* getAccessToken() again
ProbeDone(op) ==
  /\ pc[op] = "probed"
  /\ IF TokenUsable(accessToken[Slot(client[op])],
                    tokenExpiry[Slot(client[op])], now)
       THEN CacheHit(op, client[op], nExchange[op])
       ELSE IssueExchange(op, client[op], nExchange[op])
  /\ UNCHANGED <<now, credentials, baseUrl, sessions, client, opName, args,
                 sentAuth, sentPayload, response, body, result, returned, nApi,
                 mcp>>

\* variant of the failed exchange: the token cached before is given another
\* two minutes
TokenRejectedExtending(op, r) ==
  /\ pc[op] \in {"tokenFetch", "probeFetch"}
  /\ ~Ok(r.status)
  /\ response' = [response EXCEPT ![op] = TokenResponse(r)]
  /\ tokenExpiry' = [tokenExpiry EXCEPT ![Slot(client[op])] = now + 2 * SkewMs]
  /\ Settle(op, AuthenticationError(ExchangeFailureMessage(r.status, r.statusText)))
  /\ UNCHANGED <<now, credentials, baseUrl, accessToken, lastGrant,
                 client, opName, args, token, tokenFrom, sentAuth, sentPayload,
                 body, nExchange, nApi, mcp>>

\* the token endpoint answers with a non-success status
TokenRejected(op, r) ==
  /\ pc[op] \in {"tokenFetch", "probeFetch"}
  /\ ~Ok(r.status)
  /\ response' = [response EXCEPT ![op] = TokenResponse(r)]
  /\ Settle(op, AuthenticationError(ExchangeFailureMessage(r.status, r.statusText)))
  /\ UNCHANGED <<now, credentials, baseUrl, accessToken, tokenExpiry, lastGrant,
                 client, opName, args, token, tokenFrom, sentAuth, sentPayload,
                 body, nExchange, nApi, mcp>>

\* the token endpoint answers with a success status: response.json() is awaited
TokenAccepted(op, r) ==
  /\ pc[op] \in {"tokenFetch", "probeFetch"}
  /\ Ok(r.status)
  /\ response' = [response EXCEPT ![op] = TokenResponse(r)]
  /\ pc' = [pc EXCEPT ![op] =
              IF pc[op] = "probeFetch" THEN "probeJson" ELSE "tokenJson"]
  /\ UNCHANGED <<now, credentials, baseUrl, accessToken, tokenExpiry, lastGrant,
                 sessions, client, opName, args, token, tokenFrom, sentAuth,
                 sentPayload, body, result, returned, nExchange, nApi, mcp>>

\* variant of the store: an expiry that lies further ahead is kept
StoreTokenKeepingExpiry(op, data) ==
  /\ pc[op] \in {"tokenJson", "probeJson"}
  /\ body' = [body EXCEPT ![op] = data]
  /\ accessToken' = [accessToken EXCEPT ![Slot(client[op])] = data.access_token]
  /\ tokenExpiry' = [tokenExpiry EXCEPT ![Slot(client[op])] =
                       IF @ > NewExpiry(now, data.expires_in) THEN @
                       ELSE NewExpiry(now, data.expires_in)]
  /\ lastGrant' = [lastGrant EXCEPT ![Slot(client[op])] =
                     [access_token |-> data.access_token,
                      expires_in |-> data.expires_in, at |-> now,
                      replaced |-> accessToken[Slot(client[op])],
                      credentials |-> tokenFrom[op]]]
  /\ token' = [token EXCEPT ![op] = accessToken'[Slot(client[op])]]
  /\ pc' = [pc EXCEPT ![op] =
              IF pc[op] = "probeJson" THEN "probed" ELSE "headers"]
  /\ UNCHANGED <<now, credentials, baseUrl, sessions, client, opName, args,
                 tokenFrom, sentAuth, sentPayload, response, result, returned,
                 nExchange, nApi, mcp>>

\* the token response is parsed: the token and its expiry are stored and the
\* token returned
StoreToken(op, data) ==
  /\ pc[op] \in {"tokenJson", "probeJson"}
  /\ body' = [body EXCEPT ![op] = data]
  /\ accessToken' = [accessToken EXCEPT ![Slot(client[op])] = data.access_token]
  /\ tokenExpiry' = [tokenExpiry EXCEPT ![Slot(client[op])] =
                       NewExpiry(now, data.expires_in)]
  /\ lastGrant' = [lastGrant EXCEPT ![Slot(client[op])] =
                     [access_token |-> data.access_token,
                      expires_in |-> data.expires_in, at |-> now,
                      replaced |-> accessToken[Slot(client[op])],
                      credentials |-> tokenFrom[op]]]
  /\ token' = [token EXCEPT ![op] = accessToken'[Slot(client[op])]]
  /\ pc' = [pc EXCEPT ![op] =
              IF pc[op] = "probeJson" THEN "probed" ELSE "headers"]
  /\ UNCHANGED <<now, credentials, baseUrl, sessions, client, opName, args,
                 tokenFrom, sentAuth, sentPayload, response, result, returned,
                 nExchange, nApi, mcp>>

\* request() has its headers and issues the vendor API call
SendApi(op) ==
  /\ pc[op] = "headers"
  /\ sentAuth' = [sentAuth EXCEPT ![op] = AuthHeader(token[op])]
  /\ sentPayload' = [sentPayload EXCEPT ![op] = Payload(opName[op], args[op])]
  /\ nApi' = [nApi EXCEPT ![op] = @ + 1]
  /\ pc' = [pc EXCEPT ![op] = "apiFetch"]
  /\ UNCHANGED <<now, credentials, baseUrl, accessToken, tokenExpiry, lastGrant,
                 sessions, client, opName, args, token, tokenFrom, response,
                 body, result, returned, nExchange, mcp>>

\* variant of the 429 handler: the cached token is cleared as on a 401
RateLimitedClearing(op, r) ==
  /\ pc[op] = "apiFetch"
  /\ r.status = 429
  /\ response' = [response EXCEPT ![op] = ApiResponse(opName[op], r)]
  /\ accessToken' = [accessToken EXCEPT ![Slot(client[op])] = NoToken]
  /\ Settle(op, RateLimitError("Rate limit exceeded", RetryAfterSeconds(r.retryAfter)))
  /\ UNCHANGED <<now, credentials, baseUrl, tokenExpiry, lastGrant,
                 client, opName, args, token, tokenFrom, sentAuth, sentPayload,
                 body, nExchange, nApi, mcp>>

\* HTTP 429
RateLimited(op, r) ==
  /\ pc[op] = "apiFetch"
  /\ r.status = 429
  /\ response' = [response EXCEPT ![op] = ApiResponse(opName[op], r)]
  /\ Settle(op, RateLimitError("Rate limit exceeded", RetryAfterSeconds(r.retryAfter)))
  /\ UNCHANGED <<now, credentials, baseUrl, accessToken, tokenExpiry, lastGrant,
                 client, opName, args, token, tokenFrom, sentAuth, sentPayload,
                 body, nExchange, nApi, mcp>>

\* variant of the invalidation: the slot is left as it is
KeptToken(cur) == cur

\* the token slot after a 401 or 403
InvalidatedToken(cur) == NoToken

\* variant of the 401/403 handler: the token is cleared and the exchange
\* tried once more within the same invocation
AuthRejectedRetry(op, r) ==
  /\ pc[op] = "apiFetch"
  /\ r.status \in {401, 403}
  /\ response' = [response EXCEPT ![op] = ApiResponse(opName[op], r)]
  /\ accessToken' = [accessToken EXCEPT ![Slot(client[op])] = NoToken]
  /\ pc' = [pc EXCEPT ![op] = "tokenFetch"]
  /\ nExchange' = [nExchange EXCEPT ![op] = @ + 1]
  /\ UNCHANGED <<now, credentials, baseUrl, tokenExpiry, lastGrant, sessions,
                 client, opName, args, token, tokenFrom, sentAuth, sentPayload,
                 body, result, returned, nApi, mcp>>

\* HTTP 401 or 403: the cached token is cleared
AuthRejected(op, r) ==
  /\ pc[op] = "apiFetch"
  /\ r.status \in {401, 403}
  /\ response' = [response EXCEPT ![op] = ApiResponse(opName[op], r)]
  /\ accessToken' = [accessToken EXCEPT ![Slot(client[op])] = InvalidatedToken(@)]
  /\ Settle(op, AuthenticationError("Authentication failed. Check your API credentials."))
  /\ UNCHANGED <<now, credentials, baseUrl, tokenExpiry, lastGrant, client,
                 opName, args, token, tokenFrom, sentAuth, sentPayload, body,
                 nExchange, nApi, mcp>>

\* any other non-success status: response.text() is awaited
ErrorStatus(op, r) ==
  /\ pc[op] = "apiFetch"
  /\ r.status \notin {429, 401, 403}
  /\ ~Ok(r.status)
  /\ response' = [response EXCEPT ![op] = ApiResponse(opName[op], r)]
  /\ pc' = [pc EXCEPT ![op] = "errorText"]
  /\ UNCHANGED <<now, credentials, baseUrl, accessToken, tokenExpiry, lastGrant,
                 sessions, client, opName, args, token, tokenFrom, sentAuth,
                 sentPayload, body, result, returned, nExchange, nApi, mcp>>

\* the error body is read and the message extracted
ErrorBody(op, b) ==
  /\ pc[op] = "errorText"
  /\ body' = [body EXCEPT ![op] = b]
  /\ Settle(op, CrowdStrikeApiError(ErrorMessage(b, response[op].status),
                                    response[op].status))
  /\ UNCHANGED <<now, credentials, baseUrl, accessToken, tokenExpiry, lastGrant,
                 client, opName, args, token, tokenFrom, sentAuth, sentPayload,
                 response, nExchange, nApi, mcp>>

\* variant of the 204 handler: the body of a 204 is parsed like any other
NoContentParsed(op, r) ==
  /\ pc[op] = "apiFetch"
  /\ r.status = 204
  /\ response' = [response EXCEPT ![op] = ApiResponse(opName[op], r)]
  /\ pc' = [pc EXCEPT ![op] = "json"]
  /\ UNCHANGED <<now, credentials, baseUrl, accessToken, tokenExpiry, lastGrant,
                 sessions, client, opName, args, token, tokenFrom, sentAuth,
                 sentPayload, body, result, returned, nExchange, nApi, mcp>>

\* HTTP 204: undefined is returned, no body is read
NoContent(op, r) ==
  /\ pc[op] = "apiFetch"
  /\ r.status = 204
  /\ response' = [response EXCEPT ![op] = ApiResponse(opName[op], r)]
  /\ Settle(op, Resolved(Undefined))
  /\ UNCHANGED <<now, credentials, baseUrl, accessToken, tokenExpiry, lastGrant,
                 client, opName, args, token, tokenFrom, sentAuth, sentPayload,
                 body, nExchange, nApi, mcp>>

\* any other success status: response.json() is returned
OkStatus(op, r) ==
  /\ pc[op] = "apiFetch"
  /\ Ok(r.status)
  /\ r.status # 204
  /\ response' = [response EXCEPT ![op] = ApiResponse(opName[op], r)]
  /\ pc' = [pc EXCEPT ![op] = "json"]
  /\ UNCHANGED <<now, credentials, baseUrl, accessToken, tokenExpiry, lastGrant,
                 sessions, client, opName, args, token, tokenFrom, sentAuth,
                 sentPayload, body, result, returned, nExchange, nApi, mcp>>

\* the JSON body arrives and request() resolves with it
OkBody(op, b) ==
  /\ pc[op] = "json"
  /\ body' = [body EXCEPT ![op] = b]
  /\ Settle(op, Resolved(b))
  /\ UNCHANGED <<now, credentials, baseUrl, accessToken, tokenExpiry, lastGrant,
                 client, opName, args, token, tokenFrom, sentAuth, sentPayload,
                 response, nExchange, nApi, mcp>>

\* variant of the failed fetch: a vendor call that cannot complete is issued
\* again, up to three times
FetchFailedRetrying(op) ==
  /\ pc[op] \in {"tokenFetch", "probeFetch", "apiFetch"}
  /\ IF pc[op] = "apiFetch" /\ nApi[op] < 3
       THEN /\ pc' = [pc EXCEPT ![op] = "headers"]
            /\ UNCHANGED <<result, returned, sessions>>
       ELSE Settle(op, NetworkError)
  /\ UNCHANGED <<now, credentials, baseUrl, accessToken, tokenExpiry, lastGrant,
                 client, opName, args, token, tokenFrom, sentAuth, sentPayload,
                 response, body, nExchange, nApi, mcp>>

\* the fetch awaited by op (the exchange or the API call) rejects: the
\* rejection propagates out of request()
FetchFailed(op) ==
  /\ pc[op] \in {"tokenFetch", "probeFetch", "apiFetch"}
  /\ Settle(op, NetworkError)
  /\ UNCHANGED <<now, credentials, baseUrl, accessToken, tokenExpiry, lastGrant,
                 client, opName, args, token, tokenFrom, sentAuth, sentPayload,
                 response, body, nExchange, nApi, mcp>>

\* time passes
Tick(t) ==
  /\ t > now
  /\ now' = t
  /\ UNCHANGED <<credentials, baseUrl, accessToken, tokenExpiry, lastGrant,
                 sessions, pc, client, opName, args, token, tokenFrom, sentAuth,
                 sentPayload, response, body, result, returned, nExchange, nApi,
                 mcp>>

\* the steps of an operation that calls request(), the network answering
\* from the given sets
OpStep(op, calls, tokenResponses, grants, apiResponses, errorBodies, okBodies) ==
  \/ \E c \in Clients, call \in calls : Request(op, c, call)
  \/ \E r \in tokenResponses : TokenRejected(op, r)
  \/ \E r \in tokenResponses : TokenAccepted(op, r)
  \/ \E data \in grants : StoreToken(op, data)
  \/ SendApi(op)
  \/ \E r \in apiResponses : RateLimited(op, r)
  \/ \E r \in apiResponses : AuthRejected(op, r)
  \/ \E r \in apiResponses : ErrorStatus(op, r)
  \/ \E b \in errorBodies : ErrorBody(op, b)
  \/ \E r \in apiResponses : NoContent(op, r)
  \/ \E r \in apiResponses : OkStatus(op, r)
  \/ \E b \in okBodies : OkBody(op, b)
  \/ FetchFailed(op)

\* the host query, on which the token manager and request() are studied
HostQuery == CallsOf("queryHosts")

\* one caller that awaits each operation before it starts the next
Next ==
  \/ \E op \in SeqOps :
       OpStep(op, HostQuery, TokenResponses, Grants, ApiResponses,
              ErrorBodies, OkBodies)
  \/ \E t \in Instants : Tick(t)

Spec == Init /\ [][Next]_vars

-----------------------------------------------------------------------------
(* Several operations in flight on the client: any operation may take its   *)
(* next step whenever the call it awaits has completed.  The network        *)
(* answers from one representative of each class of response.               *)

ConcInstants == {0, 1000}

ConcTokenResponses ==
  { r \in TokenResponses : r.status \in {200, 401} }

ConcGrants ==
  { [access_token |-> "tok1", expires_in |-> 61],
    [access_token |-> "tok2", expires_in |-> 300] }

ConcApiResponses ==
  { r \in ApiResponses : r.status \in {200, 204, 401, 429, 500}
                         /\ r.retryAfter = NoHeader }

ConcErrorBodies == {TextBody}

ConcOkBodies == {Envelope(TRUE, <<"d1", "d2">>)}

NextConc ==
  \/ \E op \in Ops :
       OpStep(op, HostQuery, ConcTokenResponses, ConcGrants, ConcApiResponses,
              ConcErrorBodies, ConcOkBodies)
  \/ \E t \in ConcInstants : Tick(t)

SpecConc == Init /\ [][NextConc]_vars

-----------------------------------------------------------------------------
(* Several operations in flight on the client, as far as the token slot is  *)
(* concerned: the vendor answers 401 or 200, the one answer that writes the  *)
(* slot and one of those that do not.                                        *)

RaceApiResponses ==
  { r \in ApiResponses : r.status \in {200, 401} /\ r.retryAfter = NoHeader }

NextRace ==
  \/ \E op \in Ops, c \in Clients, call \in HostQuery : Request(op, c, call)
  \/ \E op \in Ops, r \in ConcTokenResponses : TokenRejected(op, r)
  \/ \E op \in Ops, r \in ConcTokenResponses : TokenAccepted(op, r)
  \/ \E op \in Ops, data \in ConcGrants : StoreToken(op, data)
  \/ \E op \in Ops : SendApi(op)
  \/ \E op \in Ops, r \in RaceApiResponses : AuthRejected(op, r)
  \/ \E op \in Ops, r \in RaceApiResponses : OkStatus(op, r)
  \/ \E op \in Ops, b \in ConcOkBodies : OkBody(op, b)
  \/ \E t \in ConcInstants : Tick(t)

SpecRace == Init /\ [][NextRace]_vars

-----------------------------------------------------------------------------
(* Every operation of the client, one caller awaiting each before the next. *)

RTROps == RTRCommandOps \cup { "initRTRSession", "deleteRTRSession" }

\* every operation but those on RTR sessions
AllCalls == UNION { CallsOf(name) : name \in OpNames \ RTROps }

\* a token that is usable at 0 and no longer at 1000
OpsGrants == { [access_token |-> "tok1", expires_in |-> 61] }

NextOps ==
  \/ \E op \in SeqOps :
       OpStep(op, AllCalls, ConcTokenResponses, OpsGrants, ConcApiResponses,
              ConcErrorBodies, OkBodies)
  \/ \E op \in SeqOps, c \in Clients, call \in AllCalls : ShortCircuit(op, c, call)
  \/ \E op \in SeqOps, c \in Clients : TestConnection(op, c)
  \/ \E op \in SeqOps : ProbeDone(op)
  \/ \E t \in ConcInstants : Tick(t)

SpecOps == Init /\ [][NextOps]_vars

\* a step of an operation that is under way: a call it awaits returns, or
\* the operation goes on after an await
Progress(op) ==
  \/ OpStep(op, {}, ConcTokenResponses, OpsGrants, ConcApiResponses,
            ConcErrorBodies, OkBodies)
  \/ ProbeDone(op)

\* every HTTP call eventually returns, and the operation awaiting it goes on
SpecOpsFair == SpecOps /\ \A op \in SeqOps : WF_vars(Progress(op))

-----------------------------------------------------------------------------
(* The operations that change something at the vendor.                      *)

MutationOps ==
  AckOps \cup { "createIOC", "updateIOC", "createHostGroup", "updateHostGroup" }

MutationCalls == UNION { CallsOf(name) : name \in MutationOps }

NextMutations ==
  \/ \E op \in SeqOps :
       OpStep(op, MutationCalls, ConcTokenResponses, OpsGrants,
              ConcApiResponses, ConcErrorBodies, OkBodies)
  \/ \E t \in ConcInstants : Tick(t)

SpecMutations == Init /\ [][NextMutations]_vars

-----------------------------------------------------------------------------
(* The Real-Time Response operations, in any order and on any session id.   *)

RTRCalls == UNION { CallsOf(name) : name \in RTROps }

RTRApiResponses ==
  { r \in ApiResponses : r.status \in {200, 204, 401, 404, 429}
                         /\ r.retryAfter = NoHeader }

NextRTR ==
  \/ \E op \in SeqOps :
       OpStep(op, RTRCalls, ConcTokenResponses, OpsGrants, RTRApiResponses,
              ConcErrorBodies, OkBodies)
  \/ \E t \in ConcInstants : Tick(t)

SpecRTR == Init /\ [][NextRTR]_vars

-----------------------------------------------------------------------------
(* The query operations, called without a filter, with an empty one and     *)
(* with a filter.                                                           *)

\* the queries whose filter is optional
FilterQueryOps == QueryOps \ { "queryVulnerabilities" }

\* query(params) with params.filter undefined, "" or a filter
QueryCalls ==
  { Call(name, Args(<<>>, f, "", "")) : name \in FilterQueryOps, f \in Filters }

NextQueries ==
  \/ \E op \in SeqOps :
       OpStep(op, QueryCalls, ConcTokenResponses, OpsGrants, ConcApiResponses,
              ConcErrorBodies, OkBodies)
  \/ \E t \in ConcInstants : Tick(t)

SpecQueries == Init /\ [][NextQueries]_vars

-----------------------------------------------------------------------------
(* Several clients, one constructed for each incoming /mcp request; the    *)
(* requests are served one after another, each by any client constructed.   *)

NextTenants ==
  \/ \E h \in McpHeaders : McpRejected(h)
  \/ \E c \in Clients, h \in McpHeaders : McpAccepted(c, h)
  \/ \E op \in SeqOps :
       OpStep(op, HostQuery, ConcTokenResponses, ConcGrants, ConcApiResponses,
              ConcErrorBodies, ConcOkBodies)

SpecTenants == Init /\ [][NextTenants]_vars

-----------------------------------------------------------------------------
(* Properties *)

\* operation op is invoked in this step
Invoked(op) == pc[op] \in {"idle", "done"} /\ pc'[op] \notin {"idle", "done"}

\* the invocation of op issues a token exchange in this step
ExchangeIssued(op) == pc'[op] = "tokenFetch" /\ nExchange'[op] = 1

\* the token slot of the client op runs on
Cached(op) == accessToken[client[op]]

Expiry(op) == tokenExpiry[client[op]]

\* the token response stored last in that client
Granted(op) == lastGrant[client[op]]

\* op has received an answer of the vendor API (not of the token endpoint)
ApiAnswered(op) == response[op].url \notin {"none", TokenUrl}

\* C1: getAccessToken issues a token exchange exactly when no token is cached
\* or now >= tokenExpiry - 60000; for a token stored at T with expires_in 300
\* a call at T+239 s does not exchange, calls at T+240 s and T+241 s do.
C1_TokenCacheBoundary ==
  [][\A op \in Ops :
       Invoked(op) =>
         /\ ExchangeIssued(op)
              <=> (Cached(op)' = NoToken \/ now >= Expiry(op)' - 60000)
         /\ (Cached(op)' # NoToken /\ Granted(op)'.expires_in = 300) =>
              /\ now = Granted(op)'.at + 239000 => ~ExchangeIssued(op)
              /\ now = Granted(op)'.at + 240000 => ExchangeIssued(op)
              /\ now = Granted(op)'.at + 241000 => ExchangeIssued(op)]_vars

\* a call exactly on the boundary, T+240 s, of a cached 300 s token exchanges
C1_Witness ==
  \E op \in Ops :
    /\ pc[op] = "tokenFetch"
    /\ Cached(op) # NoToken
    /\ Granted(op).expires_in = 300
    /\ now = Granted(op).at + 240000

\* C2: a 401 or 403 answer makes request() fail with AuthenticationError, and
\* the next request() on the client starts with a fresh token exchange, its
\* API call not yet issued, whatever the expiry of the token cached before.
C2_InvalidationOnAuthFailure ==
  [][\A op \in Ops :
       /\ (pc[op] = "apiFetch" /\ pc'[op] # "apiFetch"
             /\ response'[op].status \in {401, 403}) =>
            /\ pc'[op] = "done"
            /\ result'[op].kind = "AuthenticationError"
       /\ (pc[op] = "done" /\ ApiAnswered(op)
             /\ response[op].status \in {401, 403} /\ Invoked(op)) =>
            /\ ExchangeIssued(op)
            /\ nApi'[op] = 0]_vars

\* the request after a 401/403 exchanges although the old expiry is far away
C2_Witness ==
  \E op \in Ops :
    /\ pc[op] = "tokenFetch"
    /\ Cached(op) = NoToken
    /\ Granted(op).access_token # NoToken
    /\ now < Expiry(op) - 60000

\* C3: at most one token exchange of a client is in flight at any time.
C3_SingleExchangeInFlight ==
  \A c \in Clients :
    Cardinality({op \in Ops : pc[op] = "tokenFetch" /\ client[op] = c}) <= 1

\* C4: when a token is cached and now < tokenExpiry - 60000, getAccessToken
\* returns exactly the cached token, issues no HTTP call and leaves
\* accessToken and tokenExpiry unchanged.
C4_CacheHitFrame ==
  [][\A op \in Ops :
       (Invoked(op) /\ Cached(op)' # NoToken /\ now < Expiry(op)' - 60000) =>
         /\ token'[op] = accessToken[client'[op]]
         /\ pc'[op] = "headers"
         /\ nExchange'[op] = 0
         /\ nApi'[op] = 0
         /\ accessToken' = accessToken
         /\ tokenExpiry' = tokenExpiry]_vars

\* a hit one millisecond before the boundary of a 61 s token stored at 0
C4_Witness ==
  \E op \in Ops :
    /\ pc[op] = "headers"
    /\ nExchange[op] = 0
    /\ token[op] = Cached(op)
    /\ now = 999
    /\ Expiry(op) = 61000

C6_ExchangeFailure ==
  \A op \in Ops :
    (response[op].url = TokenUrl /\ ~Ok(response[op].status)) =>
      /\ pc[op] = "done"
      /\ result[op] = AuthenticationError(
           "OAuth2 authentication failed: " \o ToString(response[op].status)
             \o " " \o response[op].statusText)
      /\ returned[op] = result[op]
      /\ nExchange[op] = 1
      /\ nApi[op] = 0
      /\ sentAuth[op] = NoAuth

\* the token endpoint answered 500 Internal Server Error
C6_Witness ==
  \E op \in Ops :
    /\ response[op].url = TokenUrl
    /\ response[op].status = 500
    /\ result[op].kind = "AuthenticationError"
    /\ result[op].message = "OAuth2 authentication failed: 500 Internal Server Error"

\* C7: on a successful exchange the client stores the returned access_token,
\* sets tokenExpiry = now + expires_in * 1000 and returns that token; the
\* slot holds the new value whatever it held before, and no further HTTP
\* call (no revocation) is issued.
C7_StoreOnSuccess ==
  [][\A op \in Ops :
       (pc[op] = "tokenJson" /\ pc'[op] # "tokenJson") =>
         /\ Cached(op)' = body'[op].access_token
         /\ Expiry(op)' = now + body'[op].expires_in * 1000
         /\ token'[op] = body'[op].access_token
         /\ pc'[op] = "headers"
         /\ nExchange' = nExchange
         /\ nApi' = nApi]_vars

\* tok2 with expires_in 300 stored at 240 s over tok1, which was in the slot
C7_Witness ==
  \E op \in Ops :
    /\ pc[op] = "headers"
    /\ nExchange[op] = 1
    /\ now = 240000
    /\ Granted(op).replaced = "tok1"
    /\ Cached(op) = "tok2"
    /\ Expiry(op) = 540000
    /\ token[op] = "tok2"

\* C8: every vendor API call carries Authorization: Bearer <t>, t the token
\* getAccessToken returned to that invocation (the cached one on a hit, the
\* exchanged one on a miss); queryHosts answered with resources ["d1","d2"]
\* returns exactly that list.
C8_BearerToken ==
  \A op \in Ops :
    /\ sentAuth[op] # NoAuth =>
         /\ token[op] \in Tokens
         /\ sentAuth[op] = "Bearer " \o token[op]
         /\ token[op] = Granted(op).access_token
         /\ nExchange[op] = 1 =>
              (body[op] \in Grants => token[op] = body[op].access_token)
    /\ (pc[op] = "done" /\ opName[op] = "queryHosts"
          /\ body[op] = Envelope(TRUE, <<"d1", "d2">>)) =>
         returned[op] = Resolved(<<"d1", "d2">>)

\* the exchange returned tok1 with expires_in 1 and the host query d1, d2
C8_Witness ==
  \E op \in Ops :
    /\ Granted(op).access_token = "tok1"
    /\ Granted(op).expires_in = 1
    /\ nExchange[op] = 1
    /\ sentAuth[op] = "Bearer tok1"
    /\ returned[op] = Resolved(<<"d1", "d2">>)

\* op's request() was answered 429 by the vendor API
Answered429(op) == ApiAnswered(op) /\ response[op].status = 429

\* C9 as stated: a 429 makes request() fail with RateLimitError whose
\* retry-after value is the X-RateLimit-RetryAfter header parsed as an integer
\* when the header is present, and 60 when it is absent.
C9_RetryAfterWhenPresent ==
  \A op \in Ops :
    Answered429(op) =>
      /\ result[op].kind = "RateLimitError"
      /\ result[op].retryAfter =
           IF response[op].retryAfter.present
             THEN ParseInt(response[op].retryAfter.value)
             ELSE Num(60)

\* C9 amended: a 429 makes request() fail with RateLimitError whose
\* retry-after value is parseInt of the X-RateLimit-RetryAfter header when the
\* header is present and not empty (30 for "30"), and 60 when the header is
\* absent or empty.
C9_RetryAfterWhenNonEmpty ==
  \A op \in Ops :
    Answered429(op) =>
      /\ pc[op] = "done"
      /\ result[op].kind = "RateLimitError"
      /\ returned[op] = result[op]
      /\ result[op].retryAfter =
           IF response[op].retryAfter.present
                /\ Len(response[op].retryAfter.value) > 0
             THEN ParseInt(response[op].retryAfter.value)
             ELSE Num(60)
      /\ response[op].retryAfter = Header(TRUE, <<"3", "0">>) =>
           result[op].retryAfter = Num(30)
      /\ response[op].retryAfter = NoHeader =>
           result[op].retryAfter = Num(60)

\* a 429 whose X-RateLimit-RetryAfter header is present and empty
C9_Witness ==
  \E op \in Ops :
    /\ Answered429(op)
    /\ response[op].retryAfter = Header(TRUE, <<>>)
    /\ result[op] = RateLimitError("Rate limit exceeded", Num(60))

\* op's request() was answered with a non-2xx status other than 429, 401, 403
\* and has read the body
AnsweredOtherError(op) ==
  /\ ApiAnswered(op)
  /\ ~Ok(response[op].status)
  /\ response[op].status \notin {429, 401, 403}
  /\ pc[op] = "done"

\* the message C10 states: errors' messages joined if the body is JSON with a
\* non-empty errors array, else the top-level message if present, else the
\* default
StatedMessage(b, status) ==
  IF b.kind = "object" /\ b.errorsKind = "array" /\ Len(b.errors) > 0
    THEN JoinMessages(b.errors)
  ELSE IF b.kind = "object" /\ b.hasMessage THEN b.message
  ELSE "API error: " \o ToString(status)

\* the message C10 states once amended
AmendedMessage(b, status) ==
  IF b.kind = "object" /\ b.errorsKind = "array" /\ Len(b.errors) > 0
       /\ \A i \in 1..Len(b.errors) : ~b.errors[i].isNull
    THEN JoinMessages(b.errors)
  ELSE IF b.kind = "object"
            /\ (b.errorsKind = "string"
                  \/ (b.errorsKind = "array" /\ Len(b.errors) > 0))
    THEN "API error: " \o ToString(status)
  ELSE IF b.kind = "object" /\ b.hasMessage /\ b.message # ""
    THEN b.message
  ELSE "API error: " \o ToString(status)

\* C10 as stated: a non-2xx answer other than 429/401/403 makes request() fail
\* with an ApiError carrying the status and the message: the errors' messages
\* joined with "; " if the body is JSON with a non-empty errors array, else the
\* top-level message if present, else "API error: <status>".
C10_MessageAsStated ==
  \A op \in Ops :
    AnsweredOtherError(op) =>
      /\ result[op].kind = "CrowdStrikeApiError"
      /\ result[op].status = response[op].status
      /\ result[op].message = StatedMessage(body[op], response[op].status)

\* C10 amended: the message is the errors' messages joined with "; " if the
\* body is JSON whose errors is a non-empty array holding no null (a missing
\* message joins as the empty string); else "API error: <status>" if errors
\* has any other non-zero length (an array holding a null, a non-empty
\* string); else the top-level message if present and not empty; else
\* "API error: <status>" (also for a body that is not JSON or is null).
C10_MessageExtraction ==
  \A op \in Ops :
    AnsweredOtherError(op) =>
      /\ result[op].kind = "CrowdStrikeApiError"
      /\ returned[op] = result[op]
      /\ result[op].status = response[op].status
      /\ result[op].message = AmendedMessage(body[op], response[op].status)
      /\ body[op] = ObjectBody("array",
                      <<ErrorItem("bad filter"), ErrorItem("bad sort")>>,
                      FALSE, "") =>
           result[op].message = "bad filter; bad sort"
      /\ body[op] = ObjectBody("absent", <<>>, TRUE, "nope") =>
           result[op].message = "nope"
      /\ (body[op] = TextBody /\ response[op].status = 500) =>
           result[op].message = "API error: 500"

\* a 500 whose body is {"message": ""}: the default message is used
C10_Witness ==
  \E op \in Ops :
    /\ AnsweredOtherError(op)
    /\ response[op].status = 500
    /\ body[op] = ObjectBody("absent", <<>>, TRUE, "")
    /\ result[op] = CrowdStrikeApiError("API error: 500", 500)

\* C11: a request() answered with HTTP 204 resolves to undefined at once:
\* the operation never waits for a JSON body and no body is read.
C11_NoContent ==
  \A op \in Ops :
    (ApiAnswered(op) /\ response[op].status = 204) =>
      /\ pc[op] = "done"
      /\ result[op] = Resolved(Undefined)
      /\ body[op] \notin OkBodies \cup ErrorBodies

\* deleteIOCs of one id answered 204: request() gave undefined and the
\* operation acknowledged
C11_Witness ==
  \E op \in Ops :
    /\ opName[op] = "deleteIOCs"
    /\ response[op].status = 204
    /\ result[op] = Resolved(Undefined)
    /\ returned[op] = Resolved(Ack(TRUE, "Deleted 1 IOC(s)"))

\* the get-by-ids operations C12 names
StatedGetOps ==
  { "getHosts", "getDetections", "getIncidents", "getBehaviors", "getAlerts",
    "getIOCs", "getVulnerabilities", "getHostGroups", "getPreventionPolicies",
    "getDeviceControlPolicies", "getSensorUpdatePolicies" }

\* C12: every get-by-ids operation called with an empty id list returns an
\* empty list and issues no HTTP call, neither a vendor API call nor a token
\* exchange; the token slot is unchanged.
C12_EmptyGetShortCircuit ==
  [][\A op \in Ops :
       (opName'[op] \in StatedGetOps /\ args'[op].ids = <<>>) =>
         /\ pc'[op] = "done"
         /\ returned'[op] = Resolved(<<>>)
         /\ nExchange'[op] = 0
         /\ nApi'[op] = 0
         /\ sentAuth'[op] = NoAuth
         /\ response'[op] = NoResponse
         /\ accessToken' = accessToken
         /\ tokenExpiry' = tokenExpiry]_vars

\* getSensorUpdatePolicies([]) returned [] while no token was cached: no
\* exchange was made for it
C12_Witness ==
  \E op \in Ops :
    /\ opName[op] = "getSensorUpdatePolicies"
    /\ args[op].ids = <<>>
    /\ pc[op] = "done"
    /\ returned[op] = Resolved(<<>>)
    /\ Cached(op) = NoToken
    /\ Granted(op).access_token = "tok1"

\* C13: containHost, liftContainment, hideHost, unhideHost, addHostsToGroup
\* and removeHostsFromGroup called with an empty id list return at once and
\* issue no network call.
C13_EmptyMutationShortCircuit ==
  \A op \in Ops :
    (opName[op] \in { "containHost", "liftContainment", "hideHost",
                      "unhideHost", "addHostsToGroup", "removeHostsFromGroup" }
       /\ args[op].ids = <<>>) =>
      /\ pc[op] = "done"
      /\ nExchange[op] = 0
      /\ nApi[op] = 0

\* C14: deleteIOCs, deleteHostGroups, updateDetectionStatus, updateAlerts and
\* updateIncident do not return early: whatever the id list, empty included,
\* they settle only through request(), and the vendor call they issue carries
\* the list as supplied.
C14_DeleteUpdateNoShortCircuit ==
  \A op \in Ops :
    opName[op] \in { "deleteIOCs", "deleteHostGroups", "updateDetectionStatus",
                     "updateAlerts", "updateIncident" } =>
      /\ (pc[op] = "done" /\ nApi[op] = 0) =>
           /\ nExchange[op] = 1
           /\ IsError(result[op])
           /\ returned[op] = result[op]
      /\ (pc[op] = "done" /\ result[op].kind = "resolved") => nApi[op] = 1
      /\ nApi[op] = 1 =>
           /\ sentAuth[op] # NoAuth
           /\ sentPayload[op].ids = args[op].ids

\* deleteIOCs([]) issued its vendor call with no id and acknowledged
C14_Witness ==
  \E op \in Ops :
    /\ opName[op] = "deleteIOCs"
    /\ args[op].ids = <<>>
    /\ nApi[op] = 1
    /\ sentPayload[op].ids = <<>>
    /\ returned[op] = Resolved(Ack(TRUE, "Deleted 0 IOC(s)"))

\* C15: queryVulnerabilities invoked with an absent or empty filter fails
\* with a local validation error before any network call: no token exchange
\* and no vendor API call is issued.
C15_FilterRequired ==
  \A op \in Ops :
    (opName[op] = "queryVulnerabilities"
       /\ (~args[op].filter.present \/ args[op].filter.value = "")) =>
      /\ pc[op] = "done"
      /\ IsError(returned[op])
      /\ nExchange[op] = 0
      /\ nApi[op] = 0

\* C16 as stated: every operation of the client lets an error raised by
\* request() or getAccessToken propagate unmodified to its caller; none
\* catches an error and converts it into a normal return value.
C16_ErrorsPropagate ==
  \A op \in Ops :
    (pc[op] = "done" /\ IsError(result[op])) => returned[op] = result[op]

\* C16 amended: every operation of the client except testConnection lets an
\* error raised by request() or getAccessToken propagate unmodified to its
\* caller; testConnection catches it and returns
\* { connected: false, message: <the error's message> }.
C16_ErrorsPropagateButProbe ==
  \A op \in Ops :
    (pc[op] = "done" /\ IsError(result[op])) =>
      IF opName[op] = "testConnection"
        THEN /\ returned[op].kind = "resolved"
             /\ returned[op].value.connected = FALSE
             /\ returned[op].value.message = MessageOf(result[op])
        ELSE returned[op] = result[op]

\* the token endpoint answered 401 to testConnection, which returned
\* connected: false
C16_Witness ==
  \E op \in Ops :
    /\ opName[op] = "testConnection"
    /\ pc[op] = "done"
    /\ result[op].kind = "AuthenticationError"
    /\ nApi[op] = 0
    /\ returned[op] = Resolved(ConnectionStatus(FALSE,
                         "OAuth2 authentication failed: 401 Unauthorized"))

\* C17: at the tool boundary every error raised during a tool invocation
\* (token exchange failure, 401/403, 429, other non-2xx) surfaces as a tool
\* result marked failed (isError = true) carrying the error's reason, for
\* every tool, crowdstrike_test_connection included.
C17_ToolErrorsMarked ==
  \A op \in Ops :
    (pc[op] = "done" /\ IsError(result[op])) =>
      /\ ToolResult(opName[op], returned[op]).isError
      /\ ToolResult(opName[op], returned[op]).reason = MessageOf(result[op])

\* the mutation operations C18 names
StatedMutationOps ==
  { "containHost", "liftContainment", "hideHost", "unhideHost",
    "updateDetectionStatus", "updateIncident", "updateAlerts",
    "createIOC", "updateIOC", "deleteIOCs",
    "createHostGroup", "updateHostGroup", "deleteHostGroups",
    "addHostsToGroup", "removeHostsFromGroup", "deleteRTRSession" }

\* the mutation operations that return one resource of the vendor's response
EntityMutationOps ==
  { "createIOC", "updateIOC", "createHostGroup", "updateHostGroup" }

\* what comes of the vendor's response body: the body, one of its resources,
\* or the undefined that stands for a missing one
VendorValues ==
  OkBodies \cup { Resource(id) : id \in {"d1", "d2"} } \cup { Undefined }

\* what op returned is an acknowledgement { success: true, message }, given
\* after a 2xx answer, whose message counts the ids supplied
Acknowledged(op) ==
  /\ returned[op] = Resolved(Ack(TRUE, AckMessage(opName[op], args[op])))
  /\ opName[op] = "containHost" =>
       returned[op] = Resolved(Ack(TRUE,
         "Containment initiated for " \o ToString(Len(args[op].ids))
           \o " host(s)"))
  /\ opName[op] = "updateDetectionStatus" =>
       returned[op] = Resolved(Ack(TRUE,
         "Updated status to 'closed' for " \o ToString(Len(args[op].ids))
           \o " detection(s)"))
  /\ ApiAnswered(op)
  /\ Ok(response[op].status)

\* C18 as stated: every mutation operation returns the locally synthesized
\* acknowledgement { success, message } and never the vendor's response body;
\* success is true only after a 2xx answer and the count in the message is
\* the length of the id list supplied.
C18_MutationsAcknowledge ==
  \A op \in Ops :
    (opName[op] \in StatedMutationOps /\ pc[op] = "done"
       /\ returned[op].kind = "resolved") =>
      /\ returned[op].value \notin VendorValues
      /\ opName[op] \notin EntityMutationOps => Acknowledged(op)

\* C18 amended: the mutation operations other than createIOC, updateIOC,
\* createHostGroup and updateHostGroup return { success: true, message },
\* never the vendor's body, only after a 2xx answer, the count in the message
\* being the length of the id list supplied; those four return the first
\* element of the vendor response's resources (undefined if there is none),
\* and fail with a TypeError on a 204 or a body without resources.
C18_MutationResults ==
  \A op \in Ops :
    (opName[op] \in StatedMutationOps /\ pc[op] = "done"
       /\ result[op].kind = "resolved") =>
      IF opName[op] \in EntityMutationOps
        THEN IF response[op].status = 204 THEN returned[op] = TypeError
             ELSE IF ~body[op].hasResources THEN returned[op] = TypeError
             ELSE IF body[op].resources = <<>>
               THEN returned[op] = Resolved(Undefined)
             ELSE returned[op] = Resolved(Resource(body[op].resources[1]))
        ELSE /\ returned[op].kind = "resolved"
             /\ returned[op].value \notin VendorValues
             /\ Acknowledged(op)

\* createIOC returned the vendor's first resource, and not an acknowledgement
C18_Witness ==
  \E op \in Ops :
    /\ opName[op] = "createIOC"
    /\ pc[op] = "done"
    /\ body[op] = Envelope(TRUE, <<"d1", "d2">>)
    /\ returned[op] = Resolved(Resource("d1"))

\* the token slot of client c is written in this step
SlotChanged(c) ==
  accessToken'[c] # accessToken[c] \/ tokenExpiry'[c] # tokenExpiry[c]

\* client c is constructed in this step
Constructed(c) ==
  credentials[c] = NoCredentials /\ credentials'[c] # NoCredentials

\* an operation running on client c takes a step
StepOn(c) == \E op \in Ops : client'[op] = c /\ pc'[op] # pc[op]

\* C19: tenant isolation. A client is constructed with a token slot of its
\* own (no token, expiry 0) and the construction leaves every other client's
\* slot alone; the accessToken/tokenExpiry of a client change only in a step
\* of an operation running on that client, and a cache hit returns that
\* client's own token; the bearer token of a request was obtained with the
\* credentials of the client that issues the request; the credentials and
\* baseUrl of a constructed client never change.
C19_TenantIsolation ==
  [][ /\ \A c \in Clients :
           /\ Constructed(c) =>
                /\ accessToken'[c] = NoToken
                /\ tokenExpiry'[c] = 0
                /\ \A d \in Clients \ {c} : ~SlotChanged(d)
           /\ SlotChanged(c) => (Constructed(c) \/ StepOn(c))
           /\ credentials[c] # NoCredentials =>
                /\ credentials'[c] = credentials[c]
                /\ baseUrl'[c] = baseUrl[c]
      /\ \A op \in Ops :
           /\ (Invoked(op) /\ pc'[op] = "headers") =>
                token'[op] = accessToken[client'[op]]
           /\ (pc[op] = "tokenJson" /\ pc'[op] = "headers") =>
                token'[op] = accessToken'[client[op]]
           /\ sentAuth'[op] # NoAuth =>
                /\ sentAuth'[op] = AuthHeader(token'[op])
                /\ tokenFrom'[op] = credentials'[client'[op]] ]_vars

\* two clients constructed with different credentials each hold a token of
\* their own, and the second sends its own on a request
C19_Witness ==
  \E op \in Ops :
    /\ credentials[1] # NoCredentials
    /\ credentials[2] # NoCredentials
    /\ credentials[1] # credentials[2]
    /\ accessToken[1] = "tok1"
    /\ accessToken[2] = "tok2"
    /\ client[op] = 2
    /\ pc[op] = "apiFetch"
    /\ sentAuth[op] = AuthHeader("tok2")
    /\ tokenFrom[op] = credentials[2]

\* an RTR command is running or has run as operation op
RTRCommand(op) == opName[op] \in RTRCommandOps /\ pc[op] # "idle"

\* C20: RTR sessions are not tracked locally. Whatever the vendor's view of
\* the session id (never initialised, active or closed), an invocation of
\* executeRTRCommand or executeRTRActiveResponderCommand enters request();
\* it settles without a vendor API call only when the token exchange before
\* it failed; its vendor call carries the session id it was given; and once
\* the vendor has answered, the method returns what request() made of the
\* answer: a 429 is a RateLimitError, a 401 an AuthenticationError, any
\* other non-2xx status a CrowdStrikeApiError with that status.
C20_RTRNotTrackedLocally ==
  [][ \A op \in Ops :
        /\ (Invoked(op) /\ opName'[op] \in RTRCommandOps) =>
             /\ args'[op].sessionId \in SessionIds
             /\ pc'[op] \in {"tokenFetch", "headers"}
        /\ (RTRCommand(op)' /\ pc'[op] = "done" /\ nApi'[op] = 0) =>
             /\ nExchange'[op] = 1
             /\ \/ returned'[op] = NetworkError
                \/ /\ response'[op].url = TokenUrl
                   /\ ~Ok(response'[op].status)
                   /\ returned'[op].kind = "AuthenticationError"
        /\ (RTRCommand(op)' /\ nApi'[op] > 0) =>
             sentPayload'[op].session = args'[op].sessionId
        /\ (RTRCommand(op)' /\ pc'[op] = "done" /\ nApi'[op] > 0
              /\ result'[op] # NetworkError /\ ~Ok(response'[op].status)) =>
             /\ returned'[op] = result'[op]
             /\ returned'[op].kind =
                  IF response'[op].status = 429 THEN "RateLimitError"
                  ELSE IF response'[op].status \in {401, 403}
                    THEN "AuthenticationError"
                  ELSE "CrowdStrikeApiError"
             /\ returned'[op].kind = "CrowdStrikeApiError" =>
                  returned'[op].status = response'[op].status ]_vars

\* a command on a session that deleteRTRSession closed was sent to the
\* vendor, whose 404 came back as a CrowdStrikeApiError
C20_Witness ==
  \E op \in Ops :
    /\ opName[op] = "executeRTRCommand"
    /\ sessions[args[op].sessionId] = "closed"
    /\ pc[op] = "done"
    /\ nApi[op] = 1
    /\ sentPayload[op].session = args[op].sessionId
    /\ response[op].status = 404
    /\ returned[op] = CrowdStrikeApiError("API error: 404", 404)

RTRCommandBody == {"session_id", "base_command", "command_string"}

\* C21: read-only and active-responder RTR commands stay distinct. A vendor
\* call of executeRTRCommand goes to /real-time-response/entities/command/v1
\* and one of executeRTRActiveResponderCommand to
\* /real-time-response/entities/active-responder-command/v1, both with a body
\* of session_id, base_command and command_string, and the answer read is
\* that endpoint's; the call of the read-only tool's method never goes to the
\* active-responder endpoint.
C21_RTRCommandsDistinct ==
  \A op \in Ops :
    (opName[op] \in RTRCommandOps /\ nApi[op] > 0) =>
      /\ sentPayload[op].endpoint =
           IF opName[op] = "executeRTRCommand"
             THEN "/real-time-response/entities/command/v1"
           ELSE "/real-time-response/entities/active-responder-command/v1"
      /\ sentPayload[op].keys = RTRCommandBody
      /\ response[op].url \in {"none", TokenUrl, sentPayload[op].endpoint}
      /\ opName[op] = ToolMethod("crowdstrike_rtr_command") =>
           sentPayload[op].endpoint #
             "/real-time-response/entities/active-responder-command/v1"

\* a read-only command was posted to the command endpoint and answered
C21_Witness ==
  \E op \in Ops :
    /\ opName[op] = ToolMethod("crowdstrike_rtr_command")
    /\ pc[op] = "done"
    /\ nApi[op] = 1
    /\ sentPayload[op].endpoint = "/real-time-response/entities/command/v1"
    /\ response[op].url = "/real-time-response/entities/command/v1"
    /\ Ok(response[op].status)

\* a query with an optional filter was called without a filter or with ""
UnfilteredQuery(op) ==
  /\ opName[op] \in FilterQueryOps
  /\ pc[op] # "idle"
  /\ args[op].filter \in {NoString, String("")}

Lacking(creds) == creds.clientId = "" \/ creds.clientSecret = ""

\* C23: a POST /mcp lacking the client id or the client secret header is
\* answered with 401, and only such a request is; answering it constructs no
\* client and starts no operation; so every client constructed, and every
\* token exchange and vendor call issued, has a non-empty id and secret.
C23_MissingCredentialsRejected ==
  [][ /\ mcp' # mcp =>
           /\ mcp'.status = 401 <=> Lacking(mcp'.credentials)
           /\ mcp'.status = 401 =>
                /\ credentials' = credentials
                /\ accessToken' = accessToken
                /\ pc' = pc /\ nExchange' = nExchange /\ nApi' = nApi
           /\ mcp'.status # 401 =>
                \E c \in Clients : Constructed(c)
                                     /\ credentials'[c] = mcp'.credentials
      /\ \A c \in Clients :
           credentials'[c] # NoCredentials => ~Lacking(credentials'[c])
      /\ \A op \in Ops :
           (nExchange'[op] > 0 \/ nApi'[op] > 0) =>
             /\ ~Lacking(credentials'[client'[op]])
             /\ tokenFrom'[op] # NoCredentials => ~Lacking(tokenFrom'[op])
    ]_vars

\* a request with the client id of the second tenant and no secret was
\* answered 401; no second client exists
C23_Witness ==
  /\ mcp.status = 401
  /\ mcp.credentials.clientId = "idB"
  /\ mcp.credentials.clientSecret = ""
  /\ \A c \in Clients \ {1} : credentials[c] = NoCredentials

\* the vendor API answers op in this step
ApiAnswers(op) == pc[op] = "apiFetch" /\ response'[op] # response[op]

\* a token response is parsed and stored for op in this step
Stores(op) == pc[op] \in {"tokenJson", "probeJson"} /\ pc'[op] # pc[op]

\* C24: frame condition of the token slot. A step in which request() receives
\* a 429, a non-2xx status other than 401/403, a 204 or a 2xx leaves
\* accessToken and tokenExpiry as they were, and so does the reading of the
\* body that follows; a 401/403 answer clears accessToken and leaves
\* tokenExpiry; accessToken changes only on a 401/403 answer or when a
\* successful exchange is stored, tokenExpiry only when one is stored; and
\* the token stored is the one the exchange granted.
C24_TokenSlotFrame ==
  [][ /\ \A op \in Ops :
           /\ (ApiAnswers(op) /\ response'[op].status \notin {401, 403}) =>
                (accessToken' = accessToken /\ tokenExpiry' = tokenExpiry)
           /\ (pc[op] \in {"errorText", "json"} /\ pc'[op] # pc[op]) =>
                (accessToken' = accessToken /\ tokenExpiry' = tokenExpiry)
           /\ (ApiAnswers(op) /\ response'[op].status \in {401, 403}) =>
                /\ Cached(op)' = NoToken
                /\ tokenExpiry' = tokenExpiry
           /\ Stores(op) =>
                /\ Cached(op)' = body'[op].access_token
                /\ Expiry(op)' = now + body'[op].expires_in * 1000
      /\ accessToken' # accessToken =>
           \E op \in Ops :
             \/ ApiAnswers(op) /\ response'[op].status \in {401, 403}
             \/ Stores(op)
      /\ tokenExpiry' # tokenExpiry => \E op \in Ops : Stores(op) ]_vars

\* a request answered 500 has settled and the token obtained for it is still
\* cached with its expiry
C24_Witness ==
  \E op \in Ops :
    /\ pc[op] = "done"
    /\ nExchange[op] = 1
    /\ response[op].status = 500
    /\ result[op].kind = "CrowdStrikeApiError"
    /\ Cached(op) = token[op]
    /\ Cached(op) # NoToken
    /\ Expiry(op) = Granted(op).at + Granted(op).expires_in * 1000

\* the token exchange of op fails in this step
ExchangeFails(op) == pc[op] = "tokenFetch" /\ pc'[op] = "done"

\* the last invocation of op ended with a failed token exchange
ExchangeFailed(op) ==
  pc[op] = "done" /\ nExchange[op] = 1 /\ nApi[op] = 0 /\ IsError(result[op])

\* C25: a token exchange that fails (a non-success status or a failed fetch)
\* leaves accessToken and tokenExpiry as they were and issues no API call; the
\* next request() on the client issues the exchange again; and a token
\* returned from the cache is never one that is past tokenExpiry - 60000.
C25_FailedExchangeFrame ==
  [][\A op \in Ops :
       /\ ExchangeFails(op) =>
            /\ accessToken' = accessToken
            /\ tokenExpiry' = tokenExpiry
            /\ IsError(result'[op])
            /\ nApi'[op] = 0
       /\ (ExchangeFailed(op) /\ Invoked(op)) =>
            /\ ExchangeIssued(op)
            /\ token'[op] = NoToken
       /\ (Invoked(op) /\ pc'[op] = "headers") =>
            /\ token'[op] = Cached(op)'
            /\ token'[op] # NoToken
            /\ now < Expiry(op)' - 60000]_vars

\* an exchange issued over an expired token has failed: the expired token and
\* its expiry are still in the slot
C25_Witness ==
  \E op \in Ops :
    /\ ExchangeFailed(op)
    /\ response[op].url = TokenUrl
    /\ response[op].status = 500
    /\ Cached(op) # NoToken
    /\ Expiry(op) = Granted(op).at + Granted(op).expires_in * 1000
    /\ now >= Expiry(op) - 60000

\* C26: token and expiry stay paired. In every reachable state, with several
\* operations in flight on a client and their exchanges completing in any
\* order, a token in the slot is the access_token of the token response
\* stored last and tokenExpiry is the instant that response was stored plus
\* its expires_in * 1000; after a 401/403 has cleared the token, tokenExpiry
\* is still that of the response stored last.
C26_TokenExpiryPaired ==
  \A c \in Clients :
    /\ accessToken[c] # NoToken =>
         /\ lastGrant[c] # NoGrant
         /\ accessToken[c] = lastGrant[c].access_token
    /\ lastGrant[c] # NoGrant =>
         tokenExpiry[c] = lastGrant[c].at + lastGrant[c].expires_in * 1000
    /\ lastGrant[c] = NoGrant => tokenExpiry[c] = 0

\* two operations exchanged at once; the response with tok2 was stored first
\* and the one with tok1 over it: the slot holds tok1 with the expiry of tok1
C26_Witness ==
  \E op1, op2 \in Ops :
    /\ client[op1] = client[op2]
    /\ pc[op1] = "headers" /\ nExchange[op1] = 1 /\ token[op1] = "tok2"
    /\ pc[op2] = "headers" /\ nExchange[op2] = 1 /\ token[op2] = "tok1"
    /\ Granted(op1).replaced = "tok2"
    /\ Cached(op1) = "tok1"
    /\ Expiry(op1) = Granted(op1).at + 61000

\* C27: a 401/403 answer invalidates only the token the failing request
\* carried: when the slot holds another token by the time the answer arrives
\* (one a concurrent exchange has stored since), the answer leaves it there.
C27_InvalidatesOnlyCarriedToken ==
  [][\A op \in Ops :
       (ApiAnswers(op) /\ response'[op].status \in {401, 403}
          /\ Cached(op) # NoToken /\ Cached(op) # token[op]) =>
         Cached(op)' = Cached(op)]_vars

\* C28: a token granted with expires_in of at most 60 seconds is never served
\* from the cache: while it is the token in the slot, every request() on the
\* client issues a token exchange before any API call, at the instant the
\* token was stored as at any later one.
C28_ShortLivedTokenNotCached ==
  [][\A op \in Ops :
       (Invoked(op) /\ Cached(op)' # NoToken
          /\ Granted(op)'.expires_in <= 60) =>
         /\ ExchangeIssued(op)
         /\ token'[op] = NoToken
         /\ nApi'[op] = 0]_vars

\* a token with expires_in 60 is in the slot and a request made at the very
\* instant it was stored exchanges again
C28_Witness ==
  \E op \in Ops :
    /\ pc[op] = "tokenFetch"
    /\ nExchange[op] = 1
    /\ Cached(op) # NoToken
    /\ Granted(op).expires_in = 60
    /\ now = Granted(op).at

\* operation op is under way
Running(op) == pc[op] \notin {"idle", "done"}

\* the calls an invocation of op has issued are within the stated bounds
C29_Bounded(op) == nExchange[op] <= 1 /\ nApi[op] <= 1

\* C29 as stated: every operation, testConnection included, issues at most
\* one token exchange and at most one vendor API call per invocation, and an
\* operation under way completes.
C29_OneExchangeOneCall ==
  /\ [](\A op \in Ops : C29_Bounded(op))
  /\ \A op \in Ops : Running(op) ~> pc[op] = "done"

\* C29 amended: every operation issues at most one vendor API call per
\* invocation; every operation but testConnection issues at most one token
\* exchange, testConnection at most two, the second only when the token it
\* obtained first cannot be served from the cache; and an operation under
\* way completes.
C29_BoundedWork ==
  /\ [](\A op \in Ops :
         /\ nApi[op] <= 1
         /\ nExchange[op] <= IF opName[op] = "testConnection" THEN 2 ELSE 1
         /\ (nExchange[op] = 2 /\ pc[op] = "tokenFetch") =>
              ~TokenUsable(Cached(op), Expiry(op), now))
  /\ \A op \in Ops : Running(op) ~> pc[op] = "done"

\* testConnection has completed after two token exchanges and the probe
C29_Witness ==
  \E op \in Ops :
    /\ opName[op] = "testConnection"
    /\ pc[op] = "done"
    /\ nExchange[op] = 2
    /\ nApi[op] = 1
    /\ returned[op].kind = "resolved"

\* testConnection has settled as operation op
Probed(op) == opName[op] = "testConnection" /\ pc[op] = "done"

\* the vendor answered the probe query of op
ProbeAnswered(op) == response[op].url = Endpoint("testConnection")

\* C30: testConnection never fails. It resolves to { connected: true } only
\* when it holds a token and the probe query was answered with a 2xx status,
\* and to { connected: false, message } with the message of the error when
\* the exchange or the probe failed; a 401/403 answer to the probe has
\* cleared the cached token.
C30_TestConnectionNeverFails ==
  \A op \in Ops :
    Probed(op) =>
      /\ returned[op].kind = "resolved"
      /\ returned[op] \in
           { Resolved(ConnectionStatus(TRUE,
               "Successfully connected to CrowdStrike Falcon API")),
             Resolved(ConnectionStatus(FALSE, MessageOf(result[op]))) }
      /\ returned[op].value.connected <=>
           /\ token[op] # NoToken
           /\ nApi[op] = 1
           /\ ProbeAnswered(op)
           /\ Ok(response[op].status)
           /\ ~IsError(result[op])
      /\ (ProbeAnswered(op) /\ response[op].status \in {401, 403}) =>
           /\ Cached(op) = NoToken
           /\ ~returned[op].value.connected

\* the probe was answered 401: testConnection returned connected: false with
\* the message of the AuthenticationError, and the token is gone
C30_Witness ==
  \E op \in Ops :
    /\ Probed(op)
    /\ ProbeAnswered(op)
    /\ response[op].status = 401
    /\ token[op] # NoToken
    /\ Cached(op) = NoToken
    /\ returned[op] =
         Resolved(ConnectionStatus(FALSE,
           "Authentication failed. Check your API credentials."))

====
